---- MODULE Spec2Model ----
(***************************************************************************)
(* A model of labs/lab02/lab02_gaussian_classifier.py: the mixture sampler *)
(* gm_sample, the estimator fit_gaussian_classifier, the density evaluator *)
(* gaussian_pdf, the scorer evaluate_classifier and the operating point    *)
(* that main reports.                                                      *)
(*                                                                         *)
(* Arithmetic.  The program computes in IEEE double.  The model computes   *)
(* exactly: a number is a rational in scientific notation, <<n, d, e>>     *)
(* standing for (n/d) * 10^e with gcd(n, d) = 1 and 1 <= |n/d| < 10, zero  *)
(* being <<0, 1, 0>>.  The form is canonical, so equal numbers are equal   *)
(* tuples, and 1e-9 and 1e-12 are written as they are in the source.       *)
(* Rounding of +, -, *, / is therefore not modelled.  pi, the square root  *)
(* and exp have no exact value here: they are evaluated to three decimal   *)
(* digits by the routines below, and a class-conditional density is kept   *)
(* to three digits.  exp keeps the facts of the IEEE function that matter  *)
(* to the program: exp(0) = 1, exp(x) > 0 down to about x = -745, and      *)
(* exp(x) = 0 below that (underflow).                                      *)
(***************************************************************************)
EXTENDS Integers, Sequences, FiniteSets, TLC

VARIABLES
    X,          \* fit's argument X: a sequence of N points, each a sequence of D integers
    y,          \* fit's argument y: a sequence of N integer labels
    gtype,      \* fit's argument gtype
    model,      \* the GaussianClassifier fit returned, or NoModel
    fitErr,     \* "none", or the exception fit raised
    Xq,         \* gaussian_pdf's argument X: the query points
    pdf,        \* the four arrays gaussian_pdf returned
    Xe,         \* evaluate_classifier's argument X
    ye,         \* evaluate_classifier's argument y
    metrics,    \* the dict evaluate_classifier returned: a function of its keys
    scoreErr,   \* "none", or the exception evaluate_classifier raised
    rocInfo,    \* the entry main stored in roc_info
    mainErr,    \* "none", or the exception main's lines 301-312 raised
    argPriors,     \* the caller's array passed to gm_sample as priors
    argMeans,      \* the caller's array passed as means
    argVariances,  \* the caller's array passed as variances
    n_samples,     \* gm_sample's argument n_samples
    sample,        \* the pair (X, components) gm_sample returned
    sampleErr,     \* "none", or the exception gm_sample raised
    pc          \* where the caller is

\* what belongs to the sampler
gen == <<argPriors, argMeans, argVariances, n_samples, sample, sampleErr>>

vars == <<X, y, gtype, model, fitErr, Xq, pdf, Xe, ye, metrics, scoreErr,
          rocInfo, mainErr, argPriors, argMeans, argVariances, n_samples,
          sample, sampleErr, pc>>

(***************************************************************************)
(* Bounds of the model.                                                    *)
(***************************************************************************)
MaxN == 3
MaxVal == 1
MaxLabel == 2
MaxQ == 2
MaxWeight == 2
MaxSamples == 2

(***************************************************************************)
(* Numbers.                                                                *)
(***************************************************************************)
Abs(i) == IF i < 0 THEN -i ELSE i
Min(a, b) == IF a < b THEN a ELSE b

RECURSIVE GCD(_, _)
GCD(a, b) == IF b = 0 THEN a ELSE GCD(b, a % b)

RECURSIVE Pow10(_)
Pow10(k) == IF k = 0 THEN 1 ELSE 10 * Pow10(k - 1)

Zero == <<0, 1, 0>>

RECURSIVE Scale(_, _, _)
Scale(n, d, e) ==
    IF Abs(n) >= 10 * d
    THEN LET g == GCD(Abs(n), 10) IN Scale(n \div g, d * (10 \div g), e + 1)
    ELSE IF Abs(n) < d
    THEN LET g == GCD(d, 10) IN Scale(n * (10 \div g), d \div g, e - 1)
    ELSE <<n, d, e>>

\* (n/d) * 10^e in canonical form; d may be negative, not zero.
Mk(n, d, e) ==
    IF n = 0 THEN Zero
    ELSE LET g == GCD(Abs(n), Abs(d))
             s == IF d < 0 THEN -1 ELSE 1
         IN  Scale((s * n) \div g, Abs(d) \div g, e)

Num(k) == Mk(k, 1, 0)
One == Num(1)

Sign(a) == IF a[1] > 0 THEN 1 ELSE IF a[1] < 0 THEN -1 ELSE 0
NumNeg(a) == <<-a[1], a[2], a[3]>>

NumMul(a, b) ==
    IF a[1] = 0 \/ b[1] = 0 THEN Zero
    ELSE LET g1 == GCD(Abs(a[1]), b[2])
             g2 == GCD(Abs(b[1]), a[2])
         IN  Scale((a[1] \div g1) * (b[1] \div g2),
                   (a[2] \div g2) * (b[2] \div g1), a[3] + b[3])

NumInv(a) == Mk(a[2], a[1], -a[3])
NumDiv(a, b) == NumMul(a, NumInv(b))

\* (n/d) * 10^k for k >= 0 as a fraction <<numerator, denominator>>, the powers
\* of ten cancelled against d first
Shift(n, d, k) ==
    LET g == GCD(Pow10(k), d) IN <<n * (Pow10(k) \div g), d \div g>>

RECURSIVE Strip(_, _, _)
\* the same number with the factors of ten of n and d moved into the exponent
Strip(n, d, e) ==
    IF n % 10 = 0 THEN Strip(n \div 10, d, e + 1)
    ELSE IF d % 10 = 0 THEN Strip(n, d \div 10, e - 1)
    ELSE <<n, d, e>>

\* the sum of two numbers given without factors of ten, brought to one exponent
\* and one denominator
AddStripped(a, b) ==
    LET e == Min(a[3], b[3])
        fa == Shift(a[1], a[2], a[3] - e)
        fb == Shift(b[1], b[2], b[3] - e)
        l == (fa[2] \div GCD(fa[2], fb[2])) * fb[2]
    IN  Mk(fa[1] * (l \div fa[2]) + fb[1] * (l \div fb[2]), l, e)

NumAdd(a, b) ==
    IF a[1] = 0 THEN b
    ELSE IF b[1] = 0 THEN a
    ELSE AddStripped(Strip(a[1], a[2], a[3]), Strip(b[1], b[2], b[3]))

NumSub(a, b) == NumAdd(a, NumNeg(b))

RECURSIVE FracLess(_, _, _, _)
\* n1/d1 < n2/d2 for positive integers, by continued fractions: no product
FracLess(n1, d1, n2, d2) ==
    IF n1 \div d1 # n2 \div d2 THEN n1 \div d1 < n2 \div d2
    ELSE IF n2 % d2 = 0 THEN FALSE
    ELSE IF n1 % d1 = 0 THEN TRUE
    ELSE FracLess(d2, n2 % d2, d1, n1 % d1)

PosLess(a, b) == a[3] < b[3] \/ (a[3] = b[3] /\ FracLess(a[1], a[2], b[1], b[2]))

NumLess(a, b) ==
    IF Sign(a) # Sign(b) THEN Sign(a) < Sign(b)
    ELSE IF Sign(a) = 0 THEN FALSE
    ELSE IF Sign(a) = 1 THEN PosLess(a, b)
    ELSE PosLess(NumNeg(b), NumNeg(a))

NumLeq(a, b) == ~NumLess(b, a)

\* F(v), with v computed once: the set binds the value
Once(v, F(_)) == CHOOSE r \in {F(w) : w \in {v}} : TRUE

RECURSIVE SumSeq(_)
SumSeq(s) == IF s = <<>> THEN Zero ELSE NumAdd(s[1], SumSeq(Tail(s)))

\* a fault: no floor
ClipNone(v, lo) == v

\* np.clip(v, lo, None)
Clip(v, lo) == IF NumLess(v, lo) THEN lo ELSE v

(***************************************************************************)
(* fit_gaussian_classifier.                                                *)
(***************************************************************************)
VarFloor == Mk(1, 1, -9)

NoModel == [gtype |-> "none", priors |-> <<>>, means |-> <<>>, variances |-> <<>>]

RECURSIVE SortedSeq(_)
SortedSeq(S) ==
    IF S = {} THEN <<>>
    ELSE LET m == CHOOSE v \in S : \A w \in S : v <= w
         IN  <<m>> \o SortedSeq(S \ {m})

RECURSIVE FirstSeen(_)
\* a fault: the distinct labels in the order they first appear, unsorted
FirstSeen(labels) ==
    IF labels = <<>> THEN <<>>
    ELSE <<Head(labels)>>
             \o SelectSeq(FirstSeen(Tail(labels)), LAMBDA v : v # Head(labels))

\* np.unique(y): the distinct labels, ascending
Unique(labels) == SortedSeq({labels[i] : i \in DOMAIN labels})

\* X[y == k]: the rows of pts whose label is k, in order
RECURSIVE RowsOf(_, _, _)
RowsOf(pts, labels, k) ==
    IF pts = <<>> THEN <<>>
    ELSE (IF Head(labels) = k THEN <<Head(pts)>> ELSE <<>>)
             \o RowsOf(Tail(pts), Tail(labels), k)

RECURSIVE IntSum(_)
IntSum(s) == IF s = <<>> THEN 0 ELSE s[1] + IntSum(Tail(s))

\* Xk.mean(axis=0)
ClassMean(Xk, D) ==
    [j \in 1..D |-> Mk(IntSum([i \in 1..Len(Xk) |-> Xk[i][j]]), Len(Xk), 0)]

\* np.sum((Xk - mean) ** 2, axis=1)
SqNorm(Xk, mean, D) ==
    [i \in 1..Len(Xk) |->
        SumSeq([j \in 1..D |->
            LET diff == NumSub(Num(Xk[i][j]), mean[j]) IN NumMul(diff, diff)])]

\* a fault: the sum divided by the sample count only, D forgotten
ClassSpreadNoD(Xk, D) ==
    NumDiv(SumSeq(SqNorm(Xk, ClassMean(Xk, D), D)), Num(Len(Xk)))

\* sq_norm.sum() / (Xk.shape[0] * D)
ClassSpread(Xk, D) ==
    NumDiv(SumSeq(SqNorm(Xk, ClassMean(Xk, D), D)), Num(Len(Xk) * D))

FitPriors(pts, labels) ==
    LET classes == Unique(labels)
    IN  [idx \in 1..Len(classes) |->
            Mk(Len(RowsOf(pts, labels, classes[idx])), Len(pts), 0)]

FitMeans(pts, labels) ==
    LET classes == Unique(labels)
    IN  [idx \in 1..Len(classes) |->
            ClassMean(RowsOf(pts, labels, classes[idx]), Len(pts[1]))]

\* the accumulator of line 90 after the loop: one sum per class under 'I',
\* one sum over all classes under 'i'
FitSpreads(pts, labels, g) ==
    LET classes == Unique(labels)
        v == [idx \in 1..Len(classes) |->
                ClassSpread(RowsOf(pts, labels, classes[idx]), Len(pts[1]))]
    IN  IF g = "I" THEN v ELSE <<SumSeq(v)>>

FitVariances(pts, labels, g) ==
    LET acc == FitSpreads(pts, labels, g)
        K == Len(Unique(labels))
    IN  IF g = "I"
        THEN [idx \in 1..Len(acc) |-> Clip(acc[idx], VarFloor)]
        ELSE <<Clip(NumDiv(acc[1], Num(K)), VarFloor)>>

\* a fault: the check of the tag left out
SupportedAny(g) == TRUE

\* lines 72-73: gtype in ("I", "i")
Supported(g) == g \in {"I", "i"}

fit_gaussian_classifier(pts, labels, g) ==
    IF ~Supported(g)
    THEN [err |-> "ValueError", model |-> NoModel]
    ELSE [err |-> "none",
          model |-> [gtype |-> g,
                     priors |-> FitPriors(pts, labels),
                     means |-> FitMeans(pts, labels),
                     variances |-> FitVariances(pts, labels, g)]]

(***************************************************************************)
(* pi, the square root and exp, to three digits; a density, to three       *)
(* significant digits and at most two decimals.                            *)
(***************************************************************************)
\* math.pi
Pi == Mk(355, 113, 0)

RECURSIVE ISqrtIn(_, _, _)
\* the largest r in lo..hi with r * r <= v
ISqrtIn(v, lo, hi) ==
    IF lo = hi THEN lo
    ELSE LET mid == (lo + hi + 1) \div 2
         IN  IF mid * mid <= v THEN ISqrtIn(v, mid, hi) ELSE ISqrtIn(v, lo, mid - 1)

\* a ** 0.5 for a > 0, cut to three significant digits
Sqrt(a) ==
    LET odd == a[3] % 2 = 1
        m == (a[1] * (IF odd THEN 100000 ELSE 10000)) \div a[2]
    IN  Mk(ISqrtIn(m, 100, 999), 100, a[3] \div 2)

RECURSIVE NumPow(_, _)
NumPow(a, k) == IF k = 0 THEN One ELSE NumMul(a, NumPow(a, k - 1))

\* a ** (D / 2)
PowHalf(a, D) == Sqrt(NumPow(a, D))

\* floor(1000 * u) for 0 <= u <= 745
Milli(u) ==
    IF u[3] + 3 >= 0 THEN (u[1] * Pow10(u[3] + 3)) \div u[2]
    ELSE u[1] \div (u[2] * Pow10(-(u[3] + 3)))

RECURSIVE Decay(_, _)
\* v * e^(-k) in fixed point, e^(-1) taken as 0.368
Decay(v, k) == IF k = 0 \/ v = 0 THEN v ELSE Decay((v * 368) \div 1000, k - 1)

\* 1000 * e^(-r/1000) for 0 <= r < 1000: four terms of the series, by Horner
ExpFrac(r) ==
    LET h4 == 1000 - r \div 4
        h3 == 1000 - (r * h4) \div 3000
        h2 == 1000 - (r * h3) \div 2000
    IN  1000 - (r * h2) \div 1000

\* np.exp(x) for x <= 0: 1 at 0; 0 below -745, where the IEEE double underflows;
\* between the two a positive multiple of 0.001
Exp(x) ==
    LET u == NumNeg(x)
    IN  IF u = Zero THEN One
        ELSE IF NumLess(Num(745), u) THEN Zero
        ELSE LET m == Milli(u)
                 v == (Decay(1000000, m \div 1000) * ExpFrac(m % 1000)) \div 1000
                 r == (v + 500) \div 1000
             IN  Mk(IF r = 0 THEN 1 ELSE r, 1000, 0)

(***************************************************************************)
(* gaussian_pdf.                                                           *)
(***************************************************************************)
EvidenceFloor == Mk(1, 1, -12)
Half == Mk(1, 2, 0)

\* np.sum(diff * diff, axis=1) for one query point
SqDist(pt, mean) ==
    SumSeq([j \in 1..Len(pt) |->
        LET diff == NumSub(Num(pt[j]), mean[j]) IN NumMul(diff, diff)])

Sigma2(m, k) == IF m.gtype = "i" THEN m.variances[1] ELSE m.variances[k]

\* 1.0 / ((2.0 * math.pi * sigma2) ** (D / 2))
Coef(sigma2, D) == NumInv(PowHalf(NumMul(NumMul(Num(2), Pi), sigma2), D))

\* a >= 0 cut to three significant digits, and to no more than two decimals;
\* what is positive stays positive, as it does in the double
Cut(a) ==
    LET q == IF a[3] >= 0 THEN a[3] - 2 ELSE -2
        k == a[3] - q
        h == IF k >= 0 THEN (a[1] * Pow10(k)) \div a[2]
             ELSE a[1] \div (a[2] * Pow10(-k))
    IN  IF a = Zero THEN Zero ELSE Mk(IF h = 0 THEN 1 ELSE h, 1, q)

\* coef * np.exp(exponent) for one query point and one class
ClassDensity(pt, m, k) ==
    LET sigma2 == Sigma2(m, k)
        exponent == NumDiv(NumMul(NumNeg(Half), SqDist(pt, m.means[k])), sigma2)
    IN  Cut(NumMul(Coef(sigma2, Len(pt)), Exp(exponent)))

\* px_given_c @ model.priors for one query point
Dot(row, w) == SumSeq([k \in 1..Len(w) |-> NumMul(row[k], w[k])])

\* lines 109-120: px_given_c, one row per query point, one column per class
ClassDensities(pts, m) ==
    [q \in 1..Len(pts) |-> [k \in 1..Len(m.priors) |-> ClassDensity(pts[q], m, k)]]

\* a fault: the densities summed without their priors
EvidenceUnweighted(px_given_c, priors) ==
    [q \in DOMAIN px_given_c |-> Clip(SumSeq(px_given_c[q]), EvidenceFloor)]

\* px = np.clip(px_given_c @ model.priors, 1e-12, None)
Evidence(px_given_c, priors) ==
    [q \in DOMAIN px_given_c |-> Clip(Dot(px_given_c[q], priors), EvidenceFloor)]

\* px_and_c = px_given_c * model.priors
Joint(px_given_c, priors) ==
    [q \in DOMAIN px_given_c |->
        [k \in 1..Len(priors) |-> NumMul(px_given_c[q][k], priors[k])]]

\* p_c_given_x = px_and_c / px[:, None]
Posterior(px_and_c, px) ==
    [q \in DOMAIN px_and_c |->
        [k \in DOMAIN px_and_c[q] |-> NumDiv(px_and_c[q][k], px[q])]]

\* return px, px_given_c, p_c_given_x, px_and_c
PdfResult(px, px_given_c, px_and_c) ==
    [px |-> px, px_given_c |-> px_given_c,
     p_c_given_x |-> Posterior(px_and_c, px), px_and_c |-> px_and_c]

PdfFrom(px_given_c, priors) ==
    Once(Evidence(px_given_c, priors), LAMBDA px :
        Once(Joint(px_given_c, priors), LAMBDA px_and_c :
            PdfResult(px, px_given_c, px_and_c)))

gaussian_pdf(pts, m) ==
    Once(ClassDensities(pts, m), LAMBDA px_given_c : PdfFrom(px_given_c, m.priors))

(***************************************************************************)
(* evaluate_classifier.  Class positions are counted from 0, as in the     *)
(* program: position p is element p + 1 of a sequence here.                *)
(***************************************************************************)
RECURSIVE ArgMaxLast(_, _, _)
\* a fault: a later entry wins when it is greater or equal
ArgMaxLast(row, best, i) ==
    IF i > Len(row) THEN best
    ELSE ArgMaxLast(row, IF NumLeq(row[best], row[i]) THEN i ELSE best, i + 1)

RECURSIVE ArgMaxFrom(_, _, _)
\* the left-to-right scan of np.argmax: a later entry wins only if greater
ArgMaxFrom(row, best, i) ==
    IF i > Len(row) THEN best
    ELSE ArgMaxFrom(row, IF NumLess(row[best], row[i]) THEN i ELSE best, i + 1)

\* posteriors.argmax(axis=1) for one row, as a position counted from 0
ArgMax(row) == ArgMaxFrom(row, 1, 2) - 1

CountIf(S) == Cardinality(S)

\* float(np.mean(y_pred != y))
ErrorRate(pred, truth) ==
    Mk(CountIf({n \in DOMAIN truth : pred[n] # truth[n]}), Len(truth), 0)

\* sklearn's confusion_matrix(y, y_pred, labels=labels): entry (i, j) counts the
\* samples whose true label is labels[i] and whose prediction is labels[j]; a
\* sample whose prediction is not among labels is counted nowhere
ConfusionMatrix(truth, pred, labels) ==
    [i \in 1..Len(labels) |-> [j \in 1..Len(labels) |->
        CountIf({n \in DOMAIN truth : truth[n] = labels[i] /\ pred[n] = labels[j]})]]

\* a fault: the counts divided by the total of the matrix, not of the row
NormalizeByTotal(counts) ==
    [i \in DOMAIN counts |->
        [j \in DOMAIN counts[i] |->
            IF IntSum([r \in DOMAIN counts |-> IntSum(counts[r])]) = 0 THEN Zero
            ELSE Mk(counts[i][j], IntSum([r \in DOMAIN counts |-> IntSum(counts[r])]), 0)]]

\* np.nan_to_num(cn_counts / cn_counts.sum(axis=1, keepdims=True)): 0/0 is NaN,
\* and NaN becomes 0
NormalizeRows(counts) ==
    [i \in DOMAIN counts |->
        LET total == IntSum(counts[i])
        IN  [j \in DOMAIN counts[i] |->
                IF total = 0 THEN Zero ELSE Mk(counts[i][j], total, 0)]]

RECURSIVE SortedDesc(_)
\* the numbers of S, descending
SortedDesc(S) ==
    IF S = {} THEN <<>>
    ELSE LET m == CHOOSE v \in S : \A w \in S : NumLeq(w, v)
         IN  <<m>> \o SortedDesc(S \ {m})

\* sklearn's roc_curve(y, score) for labels 0 and 1, both present: one point
\* per distinct score taken as threshold (positive = score >= threshold), the
\* collinear points in between dropped, (0, 0) put in front
RocCurve(truth, score) ==
    LET thr == SortedDesc({score[n] : n \in DOMAIN score})
        tps == [t \in 1..Len(thr) |->
                  CountIf({n \in DOMAIN truth : truth[n] = 1 /\ NumLeq(thr[t], score[n])})]
        fps == [t \in 1..Len(thr) |->
                  CountIf({n \in DOMAIN truth : truth[n] = 0 /\ NumLeq(thr[t], score[n])})]
        keep == [t \in 1..Len(thr) |->
                  \/ Len(thr) <= 2
                  \/ t = 1
                  \/ t = Len(thr)
                  \/ fps[t - 1] - 2 * fps[t] + fps[t + 1] # 0
                  \/ tps[t - 1] - 2 * tps[t] + tps[t + 1] # 0]
        idx == SelectSeq([t \in 1..Len(thr) |-> t], LAMBDA t : keep[t])
        P == tps[Len(thr)]
        Nn == fps[Len(thr)]
    IN  [fpr |-> <<Zero>> \o [i \in 1..Len(idx) |-> Mk(fps[idx[i]], Nn, 0)],
         tpr |-> <<Zero>> \o [i \in 1..Len(idx) |-> Mk(tps[idx[i]], P, 0)]]

\* sklearn's auc(fpr, tpr): the trapezoidal rule
Auc(fpr, tpr) ==
    SumSeq([i \in 1..(Len(fpr) - 1) |->
        NumMul(NumSub(fpr[i + 1], fpr[i]),
               NumMul(Half, NumAdd(tpr[i + 1], tpr[i])))])

\* roc_curve without pos_label accepts only labels {0, 1} and {-1, 1}
BinaryLabels(labels) == labels = <<0, 1>> \/ labels = <<-1, 1>>

NoMetrics == [k \in {} |-> 0]

\* y_pred = posteriors.argmax(axis=1)
Predict(posteriors) == [n \in DOMAIN posteriors |-> ArgMax(posteriors[n])]

\* lines 145-151: the dict of the five entries every result has
BaseMetrics(truth, posteriors, y_pred, cn_counts) ==
    [y_pred |-> y_pred,
     error |-> ErrorRate(y_pred, truth),
     confusion |-> cn_counts,
     confusion_norm |-> NormalizeRows(cn_counts),
     posteriors |-> posteriors]

\* metrics.update({"fpr": fpr, "tpr": tpr, "auc": auc(fpr, tpr)})
WithRoc(base, roc) ==
    Once(roc, LAMBDA c :
        base @@ [fpr |-> c.fpr, tpr |-> c.tpr, auc |-> Auc(c.fpr, c.tpr)])

\* lines 153-157: with two labels in y the curve is added; posteriors[:, 1]
\* needs a second column, and roc_curve needs labels it takes as binary
Metrics(truth, labels, posteriors, base) ==
    IF Len(labels) # 2 THEN [err |-> "none", metrics |-> base]
    ELSE IF Len(posteriors[1]) < 2 THEN [err |-> "IndexError", metrics |-> NoMetrics]
    ELSE IF ~BinaryLabels(labels) THEN [err |-> "ValueError", metrics |-> NoMetrics]
    ELSE [err |-> "none",
          metrics |-> WithRoc(base,
              RocCurve(truth, [n \in DOMAIN posteriors |-> posteriors[n][2]]))]

ScorePredictions(truth, labels, posteriors, y_pred) ==
    Once(ConfusionMatrix(truth, y_pred, labels), LAMBDA cn_counts :
        Metrics(truth, labels, posteriors,
                BaseMetrics(truth, posteriors, y_pred, cn_counts)))

ScorePosteriors(truth, posteriors) ==
    Once(Predict(posteriors), LAMBDA y_pred :
        ScorePredictions(truth, Unique(truth), posteriors, y_pred))

evaluate_classifier(pts, truth, m) ==
    Once(gaussian_pdf(pts, m).p_c_given_x, LAMBDA posteriors :
        ScorePosteriors(truth, posteriors))

(***************************************************************************)
(* The estimator alone: fit on every small dataset, in every mode.         *)
(***************************************************************************)
Dims == {1, 2}
GTypes == {"I", "i", "F"}

NoPdf == [px |-> <<>>, px_given_c |-> <<>>, p_c_given_x |-> <<>>, px_and_c |-> <<>>]
NoRocInfo == [k \in {} |-> 0]
NoArray == [kind |-> "none", vals |-> <<>>]
NoSample == [X |-> <<>>, components |-> <<>>]

\* the sampler was not called
NoSampling ==
    /\ argPriors = NoArray /\ argMeans = NoArray /\ argVariances = NoArray
    /\ n_samples = 0 /\ sample = NoSample /\ sampleErr = "none"

\* nothing evaluated, nothing scored yet
Idle ==
    /\ Xq = <<>> /\ pdf = NoPdf
    /\ Xe = <<>> /\ ye = <<>> /\ metrics = NoMetrics /\ scoreErr = "none"
    /\ rocInfo = NoRocInfo /\ mainErr = "none"

Datasets(maxN, dims, vals, labs) ==
    UNION {
        UNION { { [pts |-> p, labels |-> l] :
                    p \in [1..n -> [1..D -> vals]], l \in [1..n -> labs] }
                : D \in dims }
        : n \in 1..maxN }

\* the example of the specification's section 8
Section8Example ==
    [pts |-> <<<<-1>>, <<0>>, <<1>>, <<3>>, <<4>>, <<5>>>>,
     labels |-> <<0, 0, 0, 1, 1, 1>>]

\* three classes of sizes 1, 2 and 4
ThreeSizes ==
    [pts |-> <<<<0>>, <<0>>, <<5>>, <<0>>, <<1>>, <<2>>, <<3>>>>,
     labels |-> <<0, 1, 1, 2, 2, 2, 2>>]

InitFit ==
    /\ \E ds \in Datasets(MaxN, Dims, 0..MaxVal, 0..MaxLabel)
                    \cup {Section8Example, ThreeSizes} :
          X = ds.pts /\ y = ds.labels
    /\ gtype \in GTypes
    /\ model = NoModel
    /\ fitErr = "none"
    /\ Idle
    /\ NoSampling
    /\ pc = "start"

Fit ==
    /\ pc = "start"
    /\ \E r \in {fit_gaussian_classifier(X, y, gtype)} :
           /\ model' = r.model
           /\ fitErr' = r.err
    /\ pc' = "fitted"
    /\ UNCHANGED <<X, y, gtype, Xq, pdf, Xe, ye, metrics, scoreErr, rocInfo, mainErr>>
    /\ UNCHANGED gen

NextFit == Fit

SpecFit == InitFit /\ [][NextFit]_vars

(***************************************************************************)
(* The pipeline of main on one-dimensional data: fit, then the density on  *)
(* query points, or the score of a dataset (the training set or another)   *)
(* and the operating point main reports for it.                            *)
(***************************************************************************)
Init ==
    /\ \E ds \in Datasets(MaxN, {1}, 0..MaxVal, 0..MaxLabel) \cup {Section8Example} :
          X = ds.pts /\ y = ds.labels
    /\ gtype \in GTypes
    /\ model = NoModel
    /\ fitErr = "none"
    /\ Idle
    /\ NoSampling
    /\ pc = "start"

QuerySets == UNION {[1..n -> [1..1 -> 0..(MaxVal + 1)]] : n \in 1..MaxQ}

EvaluateDensity ==
    /\ pc = "fitted" /\ fitErr = "none"
    /\ \E q \in QuerySets :
          /\ Xq' = q
          /\ pdf' = gaussian_pdf(q, model)
    /\ pc' = "evaluated"
    /\ UNCHANGED <<X, y, gtype, model, fitErr, Xe, ye, metrics, scoreErr,
                   rocInfo, mainErr>>
    /\ UNCHANGED gen

EvalSets ==
    Datasets(MaxQ, {1}, 0..(MaxVal + 1), 0..MaxLabel)
        \cup {[pts |-> X, labels |-> y]}

Score ==
    /\ pc = "fitted" /\ fitErr = "none"
    /\ \E ds \in EvalSets :
          \E r \in {evaluate_classifier(ds.pts, ds.labels, model)} :
              /\ Xe' = ds.pts
              /\ ye' = ds.labels
              /\ metrics' = r.metrics
              /\ scoreErr' = r.err
    /\ pc' = "scored"
    /\ UNCHANGED <<X, y, gtype, model, fitErr, Xq, pdf, rocInfo, mainErr>>
    /\ UNCHANGED gen

RECURSIVE MaxOf(_)
MaxOf(s) == IF Len(s) = 1 THEN s[1]
            ELSE LET t == MaxOf(Tail(s)) IN IF s[1] > t THEN s[1] ELSE t

\* dict.get: None for a missing key
Get(d, key) == IF key \in DOMAIN d THEN d[key] ELSE "None"

\* main, lines 301-312: when y.max() == 1 it stores the curve and the rates
\* cn_norm[0, 1] and cn_norm[1, 1]; the index fails on a 1 x 1 matrix
ReportOperatingPoint ==
    /\ pc = "scored" /\ scoreErr = "none"
    /\ MaxOf(ye) = 1
    /\ LET cn_norm == metrics.confusion_norm
       IN  IF Len(cn_norm) < 2
           THEN rocInfo' = NoRocInfo /\ mainErr' = "IndexError"
           ELSE /\ rocInfo' = [fpr |-> Get(metrics, "fpr"),
                               tpr |-> Get(metrics, "tpr"),
                               auc |-> Get(metrics, "auc"),
                               fp_rate |-> cn_norm[1][2],
                               tp_rate |-> cn_norm[2][2]]
                /\ mainErr' = "none"
    /\ pc' = "reported"
    /\ UNCHANGED <<X, y, gtype, model, fitErr, Xq, pdf, Xe, ye, metrics, scoreErr>>
    /\ UNCHANGED gen

Next == Fit \/ EvaluateDensity \/ Score \/ ReportOperatingPoint

Spec == Init /\ [][Next]_vars

(***************************************************************************)
(* The sampler.  A caller's array is an object of one of three kinds (a    *)
(* Python list, an integer ndarray, a float ndarray) holding numbers; the  *)
(* generator's draws are choices: a component among those of positive      *)
(* probability, a point at the component's mean plus some noise.           *)
(***************************************************************************)
Kinds == {"list", "int_array", "float_array"}
Noise == {-1, 0, 1}

\* np.asarray(a, dtype=float) returns a itself when a is a float ndarray, and a
\* new array otherwise
SameObject(a) == a.kind = "float_array"

\* not a number: the value of 0/0
NaN == <<0, 0, 0>>

\* priors /= priors.sum(), on the values: 0/0 is NaN
Normalized(vals) ==
    [k \in DOMAIN vals |->
        IF SumSeq(vals) = Zero THEN NaN ELSE NumDiv(vals[k], SumSeq(vals))]

\* the division is in place: it writes into the array np.asarray returned
AfterNormalizing(a) ==
    IF SameObject(a) THEN [kind |-> a.kind, vals |-> Normalized(a.vals)] ELSE a

\* rng.choice(n_components, size=n, p=p): every outcome of positive probability
Choices(n, p) == [1..n -> {k - 1 : k \in {j \in DOMAIN p : p[j] # Zero}}]

\* rng.normal(loc=means[k], scale=sigma): the mean itself when sigma is 0
Draws(mean, variance) ==
    IF variance = Zero THEN {mean}
    ELSE {[j \in DOMAIN mean |-> NumAdd(mean[j], Num(z))] : z \in Noise}

\* the points any component can give
AllDraws(means, variances) ==
    UNION {Draws(means[k], variances[k]) : k \in DOMAIN means}

Arrays(kinds, rows) == {[kind |-> k, vals |-> v] : k \in kinds, v \in rows}

InitSample ==
    /\ \E K \in 1..2 :
          /\ argPriors \in Arrays(Kinds, [1..K -> {Num(w) : w \in 0..MaxWeight}])
          /\ argMeans \in Arrays({"float_array"}, [1..K -> {<<Num(0)>>, <<Num(2)>>}])
          /\ argVariances \in Arrays({"list", "float_array"},
                                      [1..K -> {Zero, One}])
    /\ n_samples \in 1..MaxSamples
    /\ sample = NoSample /\ sampleErr = "none"
    /\ X = <<>> /\ y = <<>> /\ gtype = "I" /\ model = NoModel /\ fitErr = "none"
    /\ Idle
    /\ pc = "sampling"

\* lines 49-66: the priors are normalized in the array np.asarray returned;
\* rng.choice raises ValueError when p holds a NaN
GmSample ==
    /\ pc = "sampling"
    /\ argPriors' = AfterNormalizing(argPriors)
    /\ \E p \in {Normalized(argPriors.vals)} :
          IF \E k \in DOMAIN p : p[k] = NaN
          THEN sample' = NoSample /\ sampleErr' = "ValueError"
          ELSE /\ \E components \in Choices(n_samples, p) :
                     \E pts \in [1..n_samples -> AllDraws(argMeans.vals, argVariances.vals)] :
                         /\ \A i \in 1..n_samples :
                               pts[i] \in Draws(argMeans.vals[components[i] + 1],
                                                argVariances.vals[components[i] + 1])
                         /\ sample' = [X |-> pts, components |-> components]
               /\ sampleErr' = "none"
    /\ pc' = "sampled"
    /\ UNCHANGED <<argMeans, argVariances, n_samples>>
    /\ UNCHANGED <<X, y, gtype, model, fitErr, Xq, pdf, Xe, ye, metrics, scoreErr,
                   rocInfo, mainErr>>

NextSample == GmSample

SpecSample == InitSample /\ [][NextSample]_vars

(***************************************************************************)
(* What the claims speak of, stated from the data.                        *)
(***************************************************************************)
Fitted == pc = "fitted" /\ fitErr = "none"
NSamples == Len(X)
NDims == Len(X[1])
LabelSet == {y[i] : i \in DOMAIN y}
NClasses == Cardinality(LabelSet)
\* the labels are 0, 1, ..., K-1, none missing
Canonical(labels) ==
    LET S == {labels[i] : i \in DOMAIN labels} IN S = 0..(Cardinality(S) - 1)
Members(k) == {i \in DOMAIN y : y[i] = k}
CountOf(k) == Cardinality(Members(k))

\* the sum of the integers f[a], a in S
RECURSIVE SetSum(_, _)
SetSum(S, f) ==
    IF S = {} THEN 0
    ELSE LET a == CHOOSE b \in S : TRUE IN f[a] + SetSum(S \ {a}, f)

\* v_k: (sum over the samples of class k and over the dimensions of the squared
\* deviation from the class mean) / (class sample count x D), in integers:
\* n^2 * (x - S/n)^2 = (n*x - S)^2
SpreadOf(k) ==
    LET n == CountOf(k)
        S == [j \in 1..NDims |-> SetSum(Members(k), [i \in Members(k) |-> X[i][j]])]
        dev == [i \in Members(k) |->
                  SetSum(1..NDims, [j \in 1..NDims |->
                      (n * X[i][j] - S[j]) * (n * X[i][j] - S[j])])]
    IN  Mk(SetSum(Members(k), dev), n * n * n * NDims, 0)

NumMax(a, b) == IF NumLess(a, b) THEN b ELSE a
\* the sum of the numbers f[a], a in S
RECURSIVE NumSetSum(_, _)
NumSetSum(S, f) ==
    IF S = {} THEN Zero
    ELSE LET a == CHOOSE b \in S : TRUE IN NumAdd(f[a], NumSetSum(S \ {a}, f))

\* (sum over k of v_k) / K
UnweightedSpread ==
    NumDiv(NumSetSum(LabelSet, [k \in LabelSet |-> SpreadOf(k)]), Num(NClasses))
\* the sample-count-weighted pooled variance: (sum over k of n_k * v_k) / N
PooledSpread ==
    NumDiv(NumSetSum(LabelSet,
                     [k \in LabelSet |-> NumMul(Num(CountOf(k)), SpreadOf(k))]),
           Num(NSamples))
\* the i-th smallest label, i from 1
LabelAt(i) == CHOOSE k \in LabelSet : Cardinality({l \in LabelSet : l < k}) = i - 1

(***************************************************************************)
(* C1: fit called with a tag other than 'I' and 'i' raises the             *)
(* unsupported-mode error whatever the dataset: it returns no model (no    *)
(* statistic was computed) and leaves X and y as they were.                *)
(***************************************************************************)
C1_UnsupportedModeFails ==
    [][(pc = "start" /\ pc' = "fitted" /\ gtype \notin {"I", "i"})
          => (fitErr' = "ValueError" /\ model' = NoModel /\ X' = X /\ y' = y)]_vars

C1_Witness == pc = "fitted" /\ gtype = "F" /\ fitErr = "ValueError" /\ Len(X) = 3

(***************************************************************************)
(* C2: every model fit returns has priors that sum to 1 and variances that *)
(* are all >= 1e-9, also for a class whose samples are identical; when the *)
(* labels are 0..K-1, prior[k] = (number of samples labelled k) / N.       *)
(***************************************************************************)
C2_PriorsAndFloor ==
    Fitted =>
        /\ SumSeq(model.priors) = One
        /\ Len(model.priors) = NClasses
        /\ \A i \in DOMAIN model.variances : NumLeq(VarFloor, model.variances[i])
        /\ Len(model.variances) = (IF gtype = "I" THEN NClasses ELSE 1)
        /\ Canonical(y) =>
              \A k \in LabelSet : model.priors[k + 1] = Mk(CountOf(k), NSamples, 0)

\* a class of two identical samples, its raw spread 0, beside another class
C2_Witness ==
    /\ Fitted /\ gtype = "I" /\ Canonical(y) /\ NClasses = 2
    /\ \E k \in LabelSet : CountOf(k) = 2 /\ SpreadOf(k) = Zero
                              /\ model.variances[k + 1] = VarFloor

(***************************************************************************)
(* C3, as amended: under PER_CLASS fit returns K variances, variance[k] =  *)
(* max(v_k, 1e-9); under SHARED it returns the single value                *)
(* max((sum of v_k) / K, 1e-9), the unweighted mean of the per-class       *)
(* values; with exactly two classes that mean differs from the pooled      *)
(* (sample-count-weighted) variance exactly when the two classes have      *)
(* unequal sizes and unequal v_k.                                          *)
(***************************************************************************)
C3_Formulas ==
    Fitted =>
        /\ gtype = "I" =>
              /\ Len(model.variances) = NClasses
              /\ \A i \in 1..NClasses :
                    model.variances[i] = NumMax(SpreadOf(LabelAt(i)), VarFloor)
        /\ gtype = "i" =>
              model.variances = <<NumMax(UnweightedSpread, VarFloor)>>

C3_VariancesAmended ==
    /\ C3_Formulas
    /\ (Fitted /\ NClasses = 2) =>
          LET a == LabelAt(1)
              b == LabelAt(2)
          IN  (UnweightedSpread # PooledSpread)
                  <=> (CountOf(a) # CountOf(b) /\ SpreadOf(a) # SpreadOf(b))

C3_Witness ==
    /\ Fitted /\ gtype = "i" /\ NClasses = 2 /\ NDims = 2
    /\ CountOf(LabelAt(1)) # CountOf(LabelAt(2))
    /\ SpreadOf(LabelAt(1)) # SpreadOf(LabelAt(2))
    /\ model.variances = <<UnweightedSpread>>
    /\ UnweightedSpread # PooledSpread

\* C3 as first stated: the unweighted mean differs from the pooled variance
\* whenever classes of unequal size have unequal v_k, for any number of classes.
C3_Original ==
    /\ C3_Formulas
    /\ (/\ Fitted
        /\ \E a, b \in LabelSet : CountOf(a) # CountOf(b)
        /\ \A a, b \in LabelSet :
              CountOf(a) # CountOf(b) => SpreadOf(a) # SpreadOf(b))
          => UnweightedSpread # PooledSpread

(***************************************************************************)
(* C9: gm_sample has no side effect: after any call the caller's priors,   *)
(* means and variances arrays hold exactly the values they held before the *)
(* call, also when the priors are floating-point weights that do not sum   *)
(* to 1.  Stated of the calls that return a dataset.                       *)
(***************************************************************************)
C9_NoSideEffect ==
    [][(pc = "sampling" /\ pc' = "sampled" /\ sampleErr' = "none")
          => (/\ argPriors'.vals = argPriors.vals
              /\ argMeans'.vals = argMeans.vals
              /\ argVariances'.vals = argVariances.vals)]_vars

(***************************************************************************)
(* C4, as amended: for every fitted model and all query points, the four   *)
(* outputs of gaussian_pdf satisfy joint[q,k] = classConditional[q,k] x    *)
(* prior[k], evidence[q] = max(sum over k of joint[q,k], 1e-12) and        *)
(* posterior[q,k] = joint[q,k] / evidence[q]; a posterior row sums to 1    *)
(* when the sum of the joint row is at least 1e-12, and to that sum        *)
(* divided by 1e-12, which is less than 1, when it is below.               *)
(***************************************************************************)
Evaluated == pc = "evaluated"
JointSum(q) == SumSeq(pdf.px_and_c[q])
Floored(q) == NumLess(JointSum(q), EvidenceFloor)

\* joint = classConditional x prior, posterior = joint / evidence
C4_JointAndPosterior(q) ==
    /\ Len(pdf.px_given_c[q]) = Len(model.priors)
    /\ \A k \in DOMAIN model.priors :
          /\ pdf.px_and_c[q][k] = NumMul(pdf.px_given_c[q][k], model.priors[k])
          /\ pdf.p_c_given_x[q][k] = NumDiv(pdf.px_and_c[q][k], pdf.px[q])

C4_DensityAmended ==
    Evaluated =>
        /\ DOMAIN pdf.px = DOMAIN Xq
        /\ \A q \in DOMAIN Xq :
              /\ C4_JointAndPosterior(q)
              /\ pdf.px[q] = NumMax(JointSum(q), EvidenceFloor)
              /\ ~Floored(q) => SumSeq(pdf.p_c_given_x[q]) = One
              /\ Floored(q) =>
                    /\ SumSeq(pdf.p_c_given_x[q]) = NumDiv(JointSum(q), EvidenceFloor)
                    /\ NumLess(SumSeq(pdf.p_c_given_x[q]), One)

\* a two-class model, one query point below the floor and one above it
C4_Witness ==
    /\ Evaluated /\ Len(model.priors) = 2 /\ Len(Xq) = 2
    /\ Floored(1) /\ pdf.px[1] = EvidenceFloor
    /\ ~Floored(2) /\ pdf.p_c_given_x[2] = <<Half, Half>>

\* C4 as first stated: evidence is the row sum of joint and every posterior row
\* sums to 1, below the floor too.
C4_Original ==
    Evaluated =>
        \A q \in DOMAIN Xq :
            /\ C4_JointAndPosterior(q)
            /\ pdf.px[q] = JointSum(q)
            /\ SumSeq(pdf.p_c_given_x[q]) = One

(***************************************************************************)
(* C5: evaluate_classifier predicts, for each sample, the position of the  *)
(* largest posterior of its row, the lowest such position when several tie *)
(* (the model fit on class 0 = [-1,0,1], class 1 = [3,4,5] gives posterior *)
(* [1/2, 1/2] at x = 2 and predicts 0), and the error it reports is the    *)
(* number of samples whose prediction differs from the true label divided  *)
(* by N.                                                                   *)
(***************************************************************************)
Scored == pc \in {"scored", "reported"} /\ scoreErr = "none"
Mismatches == {n \in DOMAIN ye : metrics.y_pred[n] # ye[n]}
IsSection8 == X = Section8Example.pts /\ y = Section8Example.labels

C5_ArgmaxAndError ==
    Scored =>
        /\ DOMAIN metrics.y_pred = DOMAIN ye
        /\ \A n \in DOMAIN ye :
              LET row == metrics.posteriors[n]
                  p == metrics.y_pred[n] + 1
              IN  /\ p \in DOMAIN row
                  /\ \A k \in DOMAIN row : NumLeq(row[k], row[p])
                  /\ \A k \in 1..(p - 1) : NumLess(row[k], row[p])
                  /\ (IsSection8 /\ Xe[n] = <<2>>) =>
                        (row = <<Half, Half>> /\ metrics.y_pred[n] = 0)
        /\ metrics.error = Mk(Cardinality(Mismatches), Len(ye), 0)

\* the example's tie at x = 2, in a dataset where one prediction is wrong
C5_Witness ==
    /\ Scored /\ IsSection8
    /\ \E n \in DOMAIN ye : Xe[n] = <<2>> /\ ye[n] = 1 /\ metrics.y_pred[n] = 0
    /\ metrics.error = Half

(***************************************************************************)
(* C6: for every dataset and fitted model passed to evaluate_classifier,   *)
(* each row of the confusion count matrix sums to the number of samples of *)
(* that true class, so all entries total N; every row of the normalized    *)
(* matrix sums to 1, except that a row whose counts sum to 0 is all zeros. *)
(***************************************************************************)
EvalLabelSet == {ye[n] : n \in DOMAIN ye}
\* the i-th smallest label of the scored dataset, i from 1
EvalLabelAt(i) ==
    CHOOSE k \in EvalLabelSet : Cardinality({l \in EvalLabelSet : l < k}) = i - 1
EvalCountOf(k) == Cardinality({n \in DOMAIN ye : ye[n] = k})

C6_ConfusionRowSums ==
    Scored =>
        /\ Len(metrics.confusion) = Cardinality(EvalLabelSet)
        /\ \A i \in DOMAIN metrics.confusion :
              /\ IntSum(metrics.confusion[i]) = EvalCountOf(EvalLabelAt(i))
              /\ IF IntSum(metrics.confusion[i]) = 0
                 THEN \A j \in DOMAIN metrics.confusion_norm[i] :
                          metrics.confusion_norm[i][j] = Zero
                 ELSE SumSeq(metrics.confusion_norm[i]) = One
        /\ IntSum([i \in DOMAIN metrics.confusion |-> IntSum(metrics.confusion[i])])
              = Len(ye)

(***************************************************************************)
(* C7: evaluate_classifier returns fpr, tpr and auc if and only if exactly *)
(* two classes are present; for every other number of classes it completes *)
(* without raising, and its result holds the predicted labels, the error   *)
(* rate, both confusion matrices and the posteriors, and no fpr, tpr or    *)
(* auc.                                                                    *)
(***************************************************************************)
BaseKeys == {"y_pred", "error", "confusion", "confusion_norm", "posteriors"}
RocKeys == {"fpr", "tpr", "auc"}

C7_RocIffTwoClasses ==
    pc \in {"scored", "reported"} =>
        /\ scoreErr = "none"
        /\ BaseKeys \subseteq DOMAIN metrics
        /\ IF Cardinality(EvalLabelSet) = 2
           THEN RocKeys \subseteq DOMAIN metrics
           ELSE RocKeys \cap DOMAIN metrics = {}

(***************************************************************************)
(* C8, as amended: for data labelled 0 and 1 and a two-class model, the    *)
(* operating point main reports (false-positive rate = normalized          *)
(* confusion[0,1], true-positive rate = normalized confusion[1,1]) equals  *)
(* the (FPR, TPR) obtained by predicting class 1 exactly for the samples   *)
(* whose class-1 posterior reaches 0.5, provided no sample has a class-1   *)
(* posterior of exactly 0.5 and no sample is in the floored-evidence case  *)
(* (its two posteriors sum to 1).  A sample at exactly 0.5 is class 0 for  *)
(* the argmax and class 1 for the threshold.                               *)
(***************************************************************************)
Reported == pc = "reported" /\ mainErr = "none"
\* the samples the threshold rule calls class 1
AtThreshold == {n \in DOMAIN ye : NumLeq(Half, metrics.posteriors[n][2])}
ThresholdRate(label) ==
    Mk(Cardinality({n \in AtThreshold : ye[n] = label}), EvalCountOf(label), 0)
ThresholdPoint == <<ThresholdRate(0), ThresholdRate(1)>>
ReportedPoint == <<rocInfo.fp_rate, rocInfo.tp_rate>>
TwoClassData == EvalLabelSet = {0, 1}
NoTieNoFloor ==
    \A n \in DOMAIN ye :
        /\ metrics.posteriors[n][2] # Half
        /\ SumSeq(metrics.posteriors[n]) = One

C8_OperatingPointAmended ==
    /\ (Reported /\ TwoClassData /\ Len(model.priors) = 2 /\ NoTieNoFloor)
          => ReportedPoint = ThresholdPoint
    /\ (Scored /\ Len(model.priors) = 2) =>
          \A n \in DOMAIN ye :
              metrics.posteriors[n] = <<Half, Half>> =>
                  (metrics.y_pred[n] = 0 /\ n \in AtThreshold)

\* a reported point off the diagonal corners: one class-0 sample on each side
C8_Witness ==
    /\ Reported /\ TwoClassData /\ Len(model.priors) = 2 /\ NoTieNoFloor
    /\ ReportedPoint = ThresholdPoint
    /\ rocInfo.tp_rate = One
    /\ rocInfo.fp_rate = Half

\* C8 as first stated: the two points are equal for every dataset and model,
\* posteriors of exactly 0.5 and the floored-evidence case included.
C8_Original ==
    (Reported /\ TwoClassData) => ReportedPoint = ThresholdPoint

(***************************************************************************)
(* C10: fit sets K to the number of distinct labels in y and stores the    *)
(* statistics of the i-th smallest distinct label in row i of priors and   *)
(* means (and of variances under 'I'); the predictions of                  *)
(* evaluate_classifier are positions 0..K-1 of the model, never label      *)
(* values: a position is the label it stands for, at every position,       *)
(* exactly when the distinct labels of y are 0, 1, ..., K-1, and then the  *)
(* predictions and the error rate of the training set are those of its own *)
(* labels and the confusion matrix counts every sample.                    *)
(***************************************************************************)
HasModel == pc # "start" /\ fitErr = "none"
ModelK == Len(model.priors)
\* the mean of the samples labelled k, per dimension
MeanOf(k) ==
    [j \in 1..NDims |->
        Mk(SetSum(Members(k), [i \in Members(k) |-> X[i][j]]), CountOf(k), 0)]
\* the label whose statistics are in the row the prediction points at
PredictedLabel(n) == LabelAt(metrics.y_pred[n] + 1)
OwnTrainingSet == Xe = X /\ ye = y

====
